---- MODULE Spec2Model ----
(***************************************************************************)
(* S3DataStore of tus-node-server (lib/stores/S3DataStore.js): the upload  *)
(* session engine create / write / getOffset / abort over an S3 multipart  *)
(* upload, for one upload identifier.                                      *)
(*                                                                         *)
(* Every S3 request is asynchronous: the step that issues it and the step  *)
(* in which S3 serves it (and its promise callback runs) are separate      *)
(* actions, so that the calls of create, write, getOffset and abort        *)
(* interleave as they do on node's event loop.                             *)
(*                                                                         *)
(* S3 is modelled by what the code relies on: getObject of a missing key   *)
(* fails with the error the code compares against ('NoSuchKey'),           *)
(* putObject overwrites, deleteObject is idempotent, uploadPart,           *)
(* completeMultipartUpload and abortMultipartUpload need an open upload.   *)
(* Bytes are numbered in the order in which the data events deliver them.  *)
(***************************************************************************)
EXTENDS Integers, Sequences, FiniteSets, TLC

\* ---------------------------------------------------------------- bounds
\* the chunk threshold this.chunkSize, in bytes (5 MiB or more in the code)
chunkSize == 2
\* bytes delivered by all data events together
MaxBytes == 5
\* largest fragment one data event delivers
MaxFragment == 2
\* write calls
MaxWrites == 3

\* ------------------------------------------------------------- constants
file_id == "f1"
InfoKey == "f1.info"
UploadId == "u1"

INVALID_LENGTH == "INVALID_LENGTH"
FILE_WRITE_ERROR == "FILE_WRITE_ERROR"
FILE_NOT_FOUND == "FILE_NOT_FOUND"
NoSuchKey == "NoSuchKey"
NoSuchUpload == "NoSuchUpload"
NoError == "none"

\* ------------------------------------------------------- request headers
\* A header is absent (typeof === 'undefined') or a string of characters.
Header(chars) == [present |-> TRUE, text |-> chars]
NoHeader == [present |-> FALSE, text |-> <<>>]

Digits == {"0", "1", "2", "3", "4", "5", "6", "7", "8", "9"}

DigitValue(c) ==
  CASE c = "0" -> 0 [] c = "1" -> 1 [] c = "2" -> 2 [] c = "3" -> 3
    [] c = "4" -> 4 [] c = "5" -> 5 [] c = "6" -> 6 [] c = "7" -> 7
    [] c = "8" -> 8 [] c = "9" -> 9

RECURSIVE LeadingDigits(_)
LeadingDigits(s) ==
  IF s = <<>> \/ Head(s) \notin Digits THEN <<>>
  ELSE <<Head(s)>> \o LeadingDigits(Tail(s))

RECURSIVE DecimalValue(_)
DecimalValue(ds) ==
  IF ds = <<>> THEN 0
  ELSE 10 * DecimalValue(SubSeq(ds, 1, Len(ds) - 1)) + DigitValue(ds[Len(ds)])

RECURSIVE SkipSpaces(_)
SkipSpaces(s) == IF s # <<>> /\ Head(s) = " " THEN SkipSpaces(Tail(s)) ELSE s

\* parseInt(x): leading white space is skipped, an optional sign is read, then
\* the longest run of digits; NaN when there is none. parseInt(undefined)
\* parses the string "undefined" and is NaN.
parseInt(h) ==
  LET s == SkipSpaces(h.text)
      neg == s # <<>> /\ Head(s) = "-"
      signed == s # <<>> /\ Head(s) \in {"-", "+"}
      ds == LeadingDigits(IF signed THEN Tail(s) ELSE s)
  IN  IF ~h.present \/ ds = <<>> THEN [isNaN |-> TRUE, value |-> 0]
      ELSE [isNaN |-> FALSE,
            value |-> IF neg THEN 0 - DecimalValue(ds) ELSE DecimalValue(ds)]

\* the headers of the creation requests: upload-length, upload-defer-length
CreateRequests ==
  { <<NoHeader, NoHeader>>,
    <<Header(<<"a", "b", "c">>), NoHeader>>,
    <<NoHeader, Header(<<"1">>)>>,
    <<Header(<<"3">>), NoHeader>>,
    <<Header(<<"4">>), NoHeader>>,
    <<Header(<<"5">>), NoHeader>> }

\* ----------------------------------------------------------------- bytes
RECURSIVE Concat(_)
\* Buffer.concat(list)
Concat(frags) ==
  IF frags = <<>> THEN <<>> ELSE Head(frags) \o Concat(Tail(frags))

\* buf.slice(0, n)
SliceHead(buf, n) == SubSeq(buf, 1, IF n < Len(buf) THEN n ELSE Len(buf))

\* buf.slice(n)
SliceTail(buf, n) == SubSeq(buf, n + 1, Len(buf))

\* the bytes first+1 .. first+n, as one fragment
Fragment(first, n) == [i \in 1..n |-> first + i]

RECURSIVE SumLen(_, _)
\* total size of the parts numbered in nums
SumLen(parts, nums) ==
  IF nums = {} THEN 0
  ELSE LET n == CHOOSE x \in nums : TRUE
       IN  Len(parts[n]) + SumLen(parts, nums \ {n})

\* ----------------------------------------------------------------- state
VARIABLES
  inMemory,   \* this.inMemory: file id -> list of buffered fragments
  objects,    \* the bucket's objects: key -> body (the `.info` records)
  mpu,        \* the multipart upload of file_id in S3
  calls,      \* the S3 requests of the upload that were served, in order
  events,     \* how often each event was emitted
  received,   \* number of bytes handed over by data events
  writes,     \* number of write calls made
  cr,         \* the create call
  wr,         \* the write call
  other,      \* a second write call for file_id whose callbacks are not
              \* the ones running (idle unless two write calls overlap)
  go,         \* the getOffset call
  ab,         \* the abort call
  refused,    \* history: S3 has refused a request of a write call
  quiet       \* history: the write call had resolved when getOffset was
              \* called, and write has not been called since

vars ==
  <<inMemory, objects, mpu, calls, events, received, writes, cr, wr, other,
    go, ab, refused, quiet>>

Empty == [k \in {} |-> <<>>]

NoMetadata ==
  [ upload_id |-> "", upload_length |-> 0, upload_offset |-> 0,
    upload_defer_length |-> NoHeader, upload_part_num |-> 0,
    upload_parts |-> <<>> ]

IdleCreate ==
  [ pc |-> "idle", length |-> NoHeader, defer |-> NoHeader,
    upload_length |-> 0, error |-> NoError ]

IdleWrite ==
  [ pc |-> "idle", metadata |-> NoMetadata, upload_offset |-> 0,
    upload_length |-> 0, mode |-> "", data |-> <<>>,
    complete |-> "", delete |-> "", result |-> 0, error |-> NoError ]

IdleGetOffset ==
  [ pc |-> "idle", metadata |-> NoMetadata, size |-> 0, error |-> NoError ]

IdleAbort ==
  [ pc |-> "idle", delete |-> "", abort |-> "", error |-> NoError ]

Init ==
  /\ inMemory = Empty
  /\ objects = Empty
  /\ mpu = [status |-> "none", parts |-> Empty]
  /\ calls = <<>>
  /\ events = [FILE_CREATED |-> 0, UPLOAD_COMPLETE |-> 0]
  /\ received = 0
  /\ writes = 0
  /\ cr = IdleCreate
  /\ wr = IdleWrite
  /\ other = IdleWrite
  /\ go = IdleGetOffset
  /\ ab = IdleAbort
  /\ refused = FALSE
  /\ quiet = FALSE

\* the length of what is buffered for file_id
Buffered == Len(Concat(inMemory[file_id]))

\* ---------------------------------------------------------------- create
\* create that leaves out the isNaN test of the parsed length
Create_NoNaNCheck(length, defer, namingThrows) ==
  /\ cr.pc \in {"idle", "rejected"}
  /\ LET upload_length == parseInt(length)
         call == [cr EXCEPT !.length = length, !.defer = defer]
     IN  IF ~length.present /\ ~defer.present
           THEN /\ cr' = [call EXCEPT !.pc = "rejected", !.error = INVALID_LENGTH]
                /\ UNCHANGED inMemory
         ELSE IF namingThrows
           THEN /\ cr' = [call EXCEPT !.pc = "rejected", !.error = FILE_WRITE_ERROR]
                /\ UNCHANGED inMemory
         ELSE /\ cr' = [call EXCEPT !.pc = "createMultipartUpload",
                                    !.upload_length = upload_length.value,
                                    !.error = NoError]
              /\ inMemory' = (file_id :> <<>>)
  /\ UNCHANGED <<objects, mpu, calls, events, received, writes, wr, go, ab, refused, quiet, other>>

\* create that sets up the buffer before the naming function has returned
Create_BufferBeforeNaming(length, defer, namingThrows) ==
  /\ cr.pc \in {"idle", "rejected"}
  /\ LET upload_length == parseInt(length)
         call == [cr EXCEPT !.length = length, !.defer = defer]
     IN  IF ~length.present /\ ~defer.present
           THEN /\ cr' = [call EXCEPT !.pc = "rejected", !.error = INVALID_LENGTH]
                /\ UNCHANGED inMemory
         ELSE IF upload_length.isNaN
           THEN /\ cr' = [call EXCEPT !.pc = "rejected", !.error = INVALID_LENGTH]
                /\ UNCHANGED inMemory
         ELSE IF namingThrows
           THEN /\ cr' = [call EXCEPT !.pc = "rejected", !.error = FILE_WRITE_ERROR]
                /\ inMemory' = (file_id :> <<>>)
         ELSE /\ cr' = [call EXCEPT !.pc = "createMultipartUpload",
                                    !.upload_length = upload_length.value,
                                    !.error = NoError]
              /\ inMemory' = (file_id :> <<>>)
  /\ UNCHANGED <<objects, mpu, calls, events, received, writes, wr, go, ab, refused, quiet, other>>

\* create(req) up to the createMultipartUpload request. The naming function
\* returns an identifier never used before, or throws.
Create(length, defer, namingThrows) ==
  /\ cr.pc \in {"idle", "rejected"}
  /\ LET upload_length == parseInt(length)
         call == [cr EXCEPT !.length = length, !.defer = defer]
     IN  IF ~length.present /\ ~defer.present
           THEN /\ cr' = [call EXCEPT !.pc = "rejected", !.error = INVALID_LENGTH]
                /\ UNCHANGED inMemory
         ELSE IF upload_length.isNaN
           THEN /\ cr' = [call EXCEPT !.pc = "rejected", !.error = INVALID_LENGTH]
                /\ UNCHANGED inMemory
         ELSE IF namingThrows
           THEN /\ cr' = [call EXCEPT !.pc = "rejected", !.error = FILE_WRITE_ERROR]
                /\ UNCHANGED inMemory
         ELSE /\ cr' = [call EXCEPT !.pc = "createMultipartUpload",
                                    !.upload_length = upload_length.value,
                                    !.error = NoError]
              /\ inMemory' = (file_id :> <<>>)
  /\ UNCHANGED <<objects, mpu, calls, events, received, writes, wr, go, ab, refused, quiet, other>>

\* S3 opens the multipart upload; create issues the putObject of the record.
CreateSession ==
  /\ cr.pc = "createMultipartUpload"
  /\ mpu' = [status |-> "open", parts |-> Empty]
  /\ calls' = Append(calls, [op |-> "createMultipartUpload", num |-> 0, parts |-> <<>>])
  /\ cr' = [cr EXCEPT !.pc = "putObject"]
  /\ UNCHANGED <<inMemory, objects, events, received, writes, wr, go, ab, refused, quiet, other>>

\* S3 stores the initial record; FILE_CREATED is emitted and create resolves.
CreateRecord ==
  /\ cr.pc = "putObject"
  /\ objects' = (InfoKey :>
       [ upload_id |-> UploadId, upload_length |-> cr.upload_length,
         upload_offset |-> 0, upload_defer_length |-> cr.defer,
         upload_part_num |-> 0, upload_parts |-> <<>> ])
  /\ events' = [events EXCEPT !.FILE_CREATED = @ + 1]
  /\ cr' = [cr EXCEPT !.pc = "resolved"]
  /\ UNCHANGED <<inMemory, mpu, calls, received, writes, wr, go, ab, refused, quiet, other>>

\* ------------------------------------------------------------ S3 requests
\* getMetadata(file_id): the record, or FILE_NOT_FOUND for a missing key
HasRecord == InfoKey \in DOMAIN objects

\* uploadPart / completeMultipartUpload / abortMultipartUpload are accepted
\* for an upload that is open
UploadOpen == mpu.status = "open"


\* ----------------------------------------------------------------- write
\* write that waits until no other write call for file_id is at work
Write_Exclusive ==
  /\ wr.pc \in {"idle", "resolved", "pending"}
  /\ other.pc \in {"idle", "resolved", "pending"}
  /\ wr.complete # "sent" /\ wr.delete # "sent"
  /\ writes < MaxWrites
  /\ writes' = writes + 1
  /\ wr' = [IdleWrite EXCEPT !.pc = "getMetadata"]
  /\ quiet' = FALSE
  /\ UNCHANGED <<inMemory, objects, mpu, calls, events, received, cr, go, ab, refused, other>>

\* write(req, file_id, offset): the getObject request of getMetadata is issued
Write ==
  /\ wr.pc \in {"idle", "resolved", "pending"}
  /\ wr.complete # "sent" /\ wr.delete # "sent"
  /\ writes < MaxWrites
  /\ writes' = writes + 1
  /\ wr' = [IdleWrite EXCEPT !.pc = "getMetadata"]
  /\ quiet' = FALSE
  /\ UNCHANGED <<inMemory, objects, mpu, calls, events, received, cr, go, ab, refused, other>>

\* getMetadata settles. With the record, write keeps upload_offset and
\* upload_length and registers its data and end handlers. Without it the
\* rejection leaves the promise chain: no handler is attached to it, and
\* neither resolve nor reject of the promise write returned is ever called.
WriteGetMetadata ==
  /\ wr.pc = "getMetadata"
  /\ IF HasRecord
       THEN wr' = [wr EXCEPT !.pc = "receiving",
                             !.metadata = objects[InfoKey],
                             !.upload_offset = objects[InfoKey].upload_offset,
                             !.upload_length = objects[InfoKey].upload_length]
       ELSE wr' = [wr EXCEPT !.pc = "pending", !.error = FILE_NOT_FOUND]
  /\ UNCHANGED <<inMemory, objects, mpu, calls, events, received, writes, cr, go, ab, refused, quiet, other>>

\* req.on('data'): a fragment of n bytes is pushed on the buffer
WriteData(n) ==
  /\ wr.pc = "receiving"
  /\ received + n <= MaxBytes
  /\ inMemory' = [inMemory EXCEPT ![file_id] = Append(@, Fragment(received, n))]
  /\ received' = received + n
  /\ UNCHANGED <<objects, mpu, calls, events, writes, cr, wr, go, ab, refused, quiet, other>>

\* dump that sends the last chunkSize buffered bytes instead of the first
dump_FromEnd(w, mode) ==
  LET memo == Concat(inMemory[file_id])
      keep == IF Len(memo) > chunkSize THEN Len(memo) - chunkSize ELSE 0
  IN  /\ inMemory' = [inMemory EXCEPT ![file_id] = <<SliceHead(memo, keep)>>]
      /\ wr' = [w EXCEPT !.pc = "uploadPart", !.mode = mode,
                         !.data = SliceTail(memo, keep)]
      /\ UNCHANGED events

\* dump that empties the buffer instead of keeping what follows the chunk
dump_DropsRest(w, mode) ==
  LET memo == Concat(inMemory[file_id])
  IN  /\ inMemory' = [inMemory EXCEPT ![file_id] = <<>>]
      /\ wr' = [w EXCEPT !.pc = "uploadPart", !.mode = mode,
                         !.data = SliceHead(memo, chunkSize)]
      /\ UNCHANGED events

\* dump(file_id, metadata) up to its uploadPart request: the first chunkSize
\* buffered bytes leave the buffer and travel as the body of the request.
dump(w, mode) ==
  LET memo == Concat(inMemory[file_id])
  IN  /\ inMemory' = [inMemory EXCEPT ![file_id] = <<SliceTail(memo, chunkSize)>>]
      /\ wr' = [w EXCEPT !.pc = "uploadPart", !.mode = mode,
                         !.data = SliceHead(memo, chunkSize)]
      /\ UNCHANGED events

\* sendResponse that answers with the persisted offset alone
sendResponse_OffsetOnly(w) ==
  /\ events' = [events EXCEPT !.UPLOAD_COMPLETE = @ + 1]
  /\ wr' = [w EXCEPT !.pc = "resolved", !.result = w.metadata.upload_offset]
  /\ UNCHANGED inMemory

\* sendResponse(metadata) of the end handler
sendResponse(w) ==
  /\ events' = [events EXCEPT !.UPLOAD_COMPLETE = @ + 1]
  /\ wr' = [w EXCEPT !.pc = "resolved",
                     !.result = w.metadata.upload_offset + Buffered]
  /\ UNCHANGED inMemory

\* The promise of dump has resolved: write answers, drain dumps again while
\* bytes are buffered.
dumped(w) ==
  IF w.mode = "drain" /\ Buffered # 0 THEN dump(w, "drain") ELSE sendResponse(w)

\* req.on('end')
WriteEnd ==
  /\ wr.pc = "receiving"
  /\ IF wr.upload_offset + Buffered < wr.upload_length
       THEN IF Buffered >= chunkSize THEN dump(wr, "dump") ELSE sendResponse(wr)
       ELSE dump(wr, "drain")
  /\ UNCHANGED <<objects, mpu, calls, received, writes, cr, go, ab, refused, quiet, other>>

\* finish(file_id, upload_id, parts): both requests are issued at once
finish(w) == [w EXCEPT !.pc = "finish", !.complete = "sent", !.delete = "sent"]

\* the update that numbers the uploaded part without counting it
uploaded_NoIncrement(metadata, data) ==
  [metadata EXCEPT !.upload_offset = @ + Len(data),
                   !.upload_parts = Append(@, metadata.upload_part_num + 1)]

\* the update that leaves upload_offset as it was
uploaded_OffsetUnchanged(metadata, data) ==
  [metadata EXCEPT !.upload_part_num = @ + 1,
                   !.upload_parts = Append(@, metadata.upload_part_num + 1)]

\* the metadata after the part with body data was uploaded
\* (the entry of upload_parts is its PartNumber; the ETag is left out)
uploaded(metadata, data) ==
  [metadata EXCEPT !.upload_part_num = @ + 1,
                   !.upload_offset = @ + Len(data),
                   !.upload_parts = Append(@, metadata.upload_part_num + 1)]

\* S3 serves the uploadPart request of dump and its callback runs.
WriteUploadPart ==
  /\ wr.pc = "uploadPart"
  /\ IF UploadOpen
       THEN LET num == wr.metadata.upload_part_num + 1
                metadata == uploaded(wr.metadata, wr.data)
                w == [wr EXCEPT !.metadata = metadata, !.data = <<>>]
            IN  /\ mpu' = [mpu EXCEPT !.parts = (num :> wr.data) @@ @]
                /\ calls' = Append(calls, [op |-> "uploadPart", num |-> num, parts |-> <<>>])
                /\ IF metadata.upload_length = metadata.upload_offset
                     THEN wr' = finish(w)
                     ELSE wr' = [w EXCEPT !.pc = "putMetadata"]
                /\ UNCHANGED refused
       ELSE /\ wr' = [wr EXCEPT !.pc = "pending", !.error = NoSuchUpload]
            /\ refused' = TRUE
            /\ UNCHANGED <<mpu, calls>>
  /\ UNCHANGED <<inMemory, objects, events, received, writes, cr, go, ab, quiet, other>>

\* S3 serves the putObject request of putMetadata; dump resolves.
WritePutMetadata ==
  /\ wr.pc = "putMetadata"
  /\ objects' = (InfoKey :> wr.metadata)
  /\ dumped(wr)
  /\ UNCHANGED <<mpu, calls, received, writes, cr, go, ab, refused, quiet, other>>

\* Bluebird.all of finish after one of its requests was served
finished(w) ==
  IF w.pc # "finish" THEN wr' = w /\ UNCHANGED <<inMemory, events>>
  ELSE IF w.complete = "failed" \/ w.delete = "failed"
    THEN wr' = [w EXCEPT !.pc = "pending", !.error = NoSuchUpload]
         /\ UNCHANGED <<inMemory, events>>
  ELSE IF w.complete = "ok" /\ w.delete = "ok" THEN dumped(w)
  ELSE wr' = w /\ UNCHANGED <<inMemory, events>>

\* S3 serves the completeMultipartUpload request of finish.
WriteComplete ==
  /\ wr.complete = "sent"
  /\ IF UploadOpen
       THEN /\ mpu' = [mpu EXCEPT !.status = "completed"]
            /\ calls' = Append(calls, [op |-> "completeMultipartUpload", num |-> 0,
                                       parts |-> wr.metadata.upload_parts])
            /\ finished([wr EXCEPT !.complete = "ok"])
            /\ UNCHANGED refused
       ELSE /\ UNCHANGED <<mpu, calls>>
            /\ refused' = TRUE
            /\ finished([wr EXCEPT !.complete = "failed"])
  /\ UNCHANGED <<objects, received, writes, cr, go, ab, quiet, other>>

\* S3 serves the deleteObject request of finish.
WriteDelete ==
  /\ wr.delete = "sent"
  /\ objects' = Empty
  /\ finished([wr EXCEPT !.delete = "ok"])
  /\ UNCHANGED <<mpu, calls, received, writes, cr, go, ab, refused, quiet, other>>

\* ------------------------------------------------------------- getOffset
\* getOffset(file_id): the getObject request of getMetadata is issued
GetOffset ==
  /\ go.pc \in {"idle", "resolved", "rejected"}
  /\ go' = [go EXCEPT !.pc = "getMetadata", !.error = NoError]
  /\ quiet' = (wr.pc = "resolved")
  /\ UNCHANGED <<inMemory, objects, mpu, calls, events, received, writes, cr, wr, ab, refused, other>>

\* S3 serves the getObject request.
GetOffsetGetMetadata ==
  /\ go.pc = "getMetadata"
  /\ IF HasRecord
       THEN go' = [go EXCEPT !.pc = "then", !.metadata = objects[InfoKey]]
       ELSE go' = [go EXCEPT !.pc = "rejected", !.error = FILE_NOT_FOUND]
  /\ UNCHANGED <<inMemory, objects, mpu, calls, events, received, writes, cr, wr, ab, refused, quiet, other>>

\* the callback of getOffset adds what is buffered now
GetOffsetThen ==
  /\ go.pc = "then"
  /\ go' = [go EXCEPT !.pc = "resolved",
                      !.size = go.metadata.upload_offset + Buffered]
  /\ UNCHANGED <<inMemory, objects, mpu, calls, events, received, writes, cr, wr, ab, refused, quiet, other>>

\* ----------------------------------------------------------------- abort
\* abort(file_id): the getObject request of getMetadata is issued
Abort ==
  /\ ab.pc \in {"idle", "resolved", "rejected"}
  /\ ab.delete # "sent" /\ ab.abort # "sent"
  /\ ab' = [IdleAbort EXCEPT !.pc = "getMetadata"]
  /\ UNCHANGED <<inMemory, objects, mpu, calls, events, received, writes, cr, wr, go, refused, quiet, other>>

\* getMetadata settles: abort issues deleteObject and abortMultipartUpload
\* together, or fails with FILE_NOT_FOUND.
AbortGetMetadata ==
  /\ ab.pc = "getMetadata"
  /\ IF HasRecord
       THEN ab' = [ab EXCEPT !.pc = "all", !.delete = "sent", !.abort = "sent"]
       ELSE ab' = [ab EXCEPT !.pc = "rejected", !.error = FILE_NOT_FOUND]
  /\ UNCHANGED <<inMemory, objects, mpu, calls, events, received, writes, cr, wr, go, refused, quiet, other>>

\* a combination that resolves as soon as one request has succeeded
aborted_Any(a, err) ==
  IF a.pc # "all" THEN a
  ELSE IF a.delete = "ok" \/ a.abort = "ok" THEN [a EXCEPT !.pc = "resolved"]
  ELSE IF a.delete = "failed" /\ a.abort = "failed"
    THEN [a EXCEPT !.pc = "rejected", !.error = err]
  ELSE a

\* Bluebird.all of abort after one of its requests was served: it rejects
\* with the first failure and resolves when both requests have succeeded.
aborted(a, err) ==
  IF a.pc # "all" THEN a
  ELSE IF a.delete = "failed" \/ a.abort = "failed"
    THEN [a EXCEPT !.pc = "rejected", !.error = err]
  ELSE IF a.delete = "ok" /\ a.abort = "ok" THEN [a EXCEPT !.pc = "resolved"]
  ELSE a

\* S3 serves the deleteObject request of abort.
AbortDelete ==
  /\ ab.delete = "sent"
  /\ objects' = Empty
  /\ ab' = aborted([ab EXCEPT !.delete = "ok"], NoError)
  /\ UNCHANGED <<inMemory, mpu, calls, events, received, writes, cr, wr, go, refused, quiet, other>>

\* S3 serves the abortMultipartUpload request of abort.
AbortUpload ==
  /\ ab.abort = "sent"
  /\ IF UploadOpen
       THEN /\ mpu' = [mpu EXCEPT !.status = "aborted"]
            /\ calls' = Append(calls, [op |-> "abortMultipartUpload", num |-> 0, parts |-> <<>>])
            /\ ab' = aborted([ab EXCEPT !.abort = "ok"], NoError)
       ELSE /\ ab' = aborted([ab EXCEPT !.abort = "failed"], NoSuchUpload)
            /\ UNCHANGED <<mpu, calls>>
  /\ UNCHANGED <<inMemory, objects, events, received, writes, cr, wr, go, refused, quiet, other>>

\* --------------------------------------------------------- specification
Next ==
  \/ \E req \in CreateRequests, namingThrows \in BOOLEAN :
       Create(req[1], req[2], namingThrows)
  \/ CreateSession
  \/ CreateRecord
  \/ Write
  \/ WriteGetMetadata
  \/ \E n \in 1..MaxFragment : WriteData(n)
  \/ WriteEnd
  \/ WriteUploadPart
  \/ WritePutMetadata
  \/ WriteComplete
  \/ WriteDelete
  \/ GetOffset
  \/ GetOffsetGetMetadata
  \/ GetOffsetThen
  \/ Abort
  \/ AbortGetMetadata
  \/ AbortDelete
  \/ AbortUpload

Spec == Init /\ [][Next]_vars

\* ------------------------------------------------- S3 requests that fail
\* S3 fails the deleteObject request of abort (network, auth, quota).
AbortDeleteFails ==
  /\ ab.delete = "sent"
  /\ ab' = aborted([ab EXCEPT !.delete = "failed"], "NetworkingError")
  /\ UNCHANGED <<inMemory, objects, mpu, calls, events, received, writes, cr, wr, go, refused, quiet, other>>

\* S3 fails the abortMultipartUpload request of abort.
AbortUploadFails ==
  /\ ab.abort = "sent"
  /\ ab' = aborted([ab EXCEPT !.abort = "failed"], "NetworkingError")
  /\ UNCHANGED <<inMemory, objects, mpu, calls, events, received, writes, cr, wr, go, refused, quiet, other>>

NextFail == Next \/ AbortDeleteFails \/ AbortUploadFails

SpecFail == Init /\ [][NextFail]_vars

\* S3 fails the getObject request of write's getMetadata with an error other
\* than NoSuchKey: getMetadata rejects with it, and the rejection leaves the
\* promise chain of write as FILE_NOT_FOUND does.
WriteGetMetadataFails ==
  /\ wr.pc = "getMetadata"
  /\ wr' = [wr EXCEPT !.pc = "pending", !.error = "NetworkingError"]
  /\ refused' = TRUE
  /\ UNCHANGED <<inMemory, objects, mpu, calls, events, received, writes, cr, go, ab, quiet, other>>

\* S3 fails the uploadPart request of dump: the chunk has left the buffer,
\* the rejection passes dump, drain and the end handler, none of which has a
\* rejection handler.
WriteUploadPartFails ==
  /\ wr.pc = "uploadPart"
  /\ wr' = [wr EXCEPT !.pc = "pending", !.error = "NetworkingError"]
  /\ refused' = TRUE
  /\ UNCHANGED <<inMemory, objects, mpu, calls, events, received, writes, cr, go, ab, quiet, other>>

\* S3 fails the putObject request of putMetadata.
WritePutMetadataFails ==
  /\ wr.pc = "putMetadata"
  /\ wr' = [wr EXCEPT !.pc = "pending", !.error = "NetworkingError"]
  /\ refused' = TRUE
  /\ UNCHANGED <<inMemory, objects, mpu, calls, events, received, writes, cr, go, ab, quiet, other>>

\* S3 fails the completeMultipartUpload request of finish.
WriteCompleteFails ==
  /\ wr.complete = "sent"
  /\ IF wr.pc = "finish"
       THEN wr' = [wr EXCEPT !.pc = "pending", !.complete = "failed",
                             !.error = "NetworkingError"]
       ELSE wr' = [wr EXCEPT !.complete = "failed"]
  /\ refused' = TRUE
  /\ UNCHANGED <<inMemory, objects, mpu, calls, events, received, writes, cr, go, ab, quiet, other>>

\* S3 fails the deleteObject request of finish.
WriteDeleteFails ==
  /\ wr.delete = "sent"
  /\ IF wr.pc = "finish"
       THEN wr' = [wr EXCEPT !.pc = "pending", !.delete = "failed",
                             !.error = "NetworkingError"]
       ELSE wr' = [wr EXCEPT !.delete = "failed"]
  /\ refused' = TRUE
  /\ UNCHANGED <<inMemory, objects, mpu, calls, events, received, writes, cr, go, ab, quiet, other>>

\* create and write alone, with S3 requests of write that fail
NextWriteFail ==
  \/ \E req \in CreateRequests, namingThrows \in BOOLEAN :
       Create(req[1], req[2], namingThrows)
  \/ CreateSession
  \/ CreateRecord
  \/ Write
  \/ WriteGetMetadata
  \/ \E n \in 1..MaxFragment : WriteData(n)
  \/ WriteEnd
  \/ WriteUploadPart
  \/ WritePutMetadata
  \/ WriteComplete
  \/ WriteDelete
  \/ WriteGetMetadataFails
  \/ WriteUploadPartFails
  \/ WritePutMetadataFails
  \/ WriteCompleteFails
  \/ WriteDeleteFails

SpecWriteFail == Init /\ [][NextWriteFail]_vars

\* ------------------------------------------- two write calls that overlap
\* Node runs the callbacks of one write call at a time: the event loop turns
\* from the write call whose callbacks ran to another write call for file_id.
\* Each call has its own metadata object and its own request stream; the
\* buffer this.inMemory[file_id] and S3 are shared.
Yield ==
  /\ wr.pc # "idle"
  /\ wr' = other
  /\ other' = wr
  /\ UNCHANGED <<inMemory, objects, mpu, calls, events, received, writes, cr, go, ab, refused, quiet>>

\* create and write calls alone, write calls overlapping at will
NextRace ==
  \/ \E req \in CreateRequests, namingThrows \in BOOLEAN :
       Create(req[1], req[2], namingThrows)
  \/ CreateSession
  \/ CreateRecord
  \/ Write
  \/ WriteGetMetadata
  \/ \E n \in 1..MaxFragment : WriteData(n)
  \/ WriteEnd
  \/ WriteUploadPart
  \/ WritePutMetadata
  \/ WriteComplete
  \/ WriteDelete
  \/ Yield

SpecRace == Init /\ [][NextRace]_vars


\* ================================================================ claims
Abc == Header(<<"a", "b", "c">>)

\* the part numbers 1 .. n in ascending order
Ascending(n) == [i \in 1..n |-> i]

\* the upload has been completed and the write that completed it has resolved
Completed == mpu.status = "completed" /\ wr.pc = "resolved"

\* C1: the size a getOffset call resolves with is never below the size the
\* previous resolved getOffset call of the identifier gave, also when the
\* call runs while a part upload of write is in flight.
C1_OffsetMonotonic ==
  [][(go.pc = "then" /\ go'.pc = "resolved") => go'.size >= go.size]_vars

\* C2: when finish issues completeMultipartUpload, the sizes of the parts S3
\* holds add up to upload_length, and the parts list handed over numbers the
\* parts 1 .. n in ascending order, which are the parts S3 holds.
C2_PartAccounting ==
  wr.pc = "finish" =>
    /\ SumLen(mpu.parts, DOMAIN mpu.parts) = wr.metadata.upload_length
    /\ wr.metadata.upload_parts = Ascending(Len(wr.metadata.upload_parts))
    /\ DOMAIN mpu.parts = 1..Len(wr.metadata.upload_parts)

C2_Witness ==
  /\ wr.pc = "finish"
  /\ Len(wr.metadata.upload_parts) >= 2
  /\ writes >= 2

\* C3: once the upload has completed or abort has resolved, the `.info`
\* record is absent, and every getOffset or abort whose getMetadata settles
\* from then on fails with FILE_NOT_FOUND.
C3_RecordAbsentAfterEnd ==
  [][ (Completed \/ ab.pc = "resolved") =>
        /\ ~HasRecord
        /\ (go.pc = "getMetadata" /\ go'.pc # "getMetadata") =>
             (go'.pc = "rejected" /\ go'.error = FILE_NOT_FOUND)
        /\ (ab.pc = "getMetadata" /\ ab'.pc # "getMetadata") =>
             (ab'.pc = "rejected" /\ ab'.error = FILE_NOT_FOUND) ]_vars

\* C4: UPLOAD_COMPLETE is emitted only when the upload has been finalized in
\* S3, and at most once per upload.
C4_UploadCompleteOnlyAtEnd ==
  events.UPLOAD_COMPLETE > 0 =>
    /\ mpu.status = "completed"
    /\ events.UPLOAD_COMPLETE = 1

\* C5: a create call with neither header, or with the upload-length "abc",
\* is rejected with INVALID_LENGTH, and it opens no multipart upload, stores
\* no record and sets up no buffer.
C5_CreateValidation ==
  (cr.pc # "idle" /\ ((~cr.length.present /\ ~cr.defer.present) \/ cr.length = Abc)) =>
    /\ cr.pc = "rejected"
    /\ cr.error = INVALID_LENGTH
    /\ mpu.status = "none"
    /\ ~HasRecord
    /\ inMemory = Empty
    /\ events.FILE_CREATED = 0

C5_Witness ==
  /\ cr.pc = "rejected"
  /\ cr.length = Abc
  /\ cr.error = INVALID_LENGTH

\* C6: a create call with upload-defer-length and no upload-length is not
\* rejected with INVALID_LENGTH.
C6_DeferredLengthAccepted ==
  (cr.pc # "idle" /\ cr.defer.present /\ ~cr.length.present) =>
    ~(cr.pc = "rejected" /\ cr.error = INVALID_LENGTH)

\* C7: a write call whose getMetadata finds no record is settled, rejected
\* with FILE_NOT_FOUND.
C7_WriteNoSessionSettles ==
  (wr.pc # "idle" /\ wr.error = FILE_NOT_FOUND) => wr.pc = "rejected"

\* C8: while S3 has refused no request of write, a write call resolves with
\* the persisted offset plus what is buffered, which is the number of bytes
\* the data events have delivered so far; and a getOffset call made after
\* the write call resolved, with no write call since, resolves with the same
\* value.
C8_WriteResolvesReceived ==
  (~refused /\ wr.pc = "resolved") =>
    /\ wr.result = received
    /\ wr.result = wr.metadata.upload_offset + Buffered
    /\ HasRecord => objects[InfoKey].upload_offset = wr.metadata.upload_offset
    /\ (quiet /\ go.pc = "resolved") => go.size = wr.result

C8_Witness ==
  /\ ~refused
  /\ wr.pc = "resolved"
  /\ wr.metadata.upload_offset > 0
  /\ Buffered > 0
  /\ quiet
  /\ go.pc = "resolved"
  /\ go.size = received

\* C9: a getOffset call made after the only write call delivered all
\* upload_length bytes and resolved (UPLOAD_COMPLETE emitted), with abort never
\* called, resolves with size and upload_length equal to upload_length.
C9_GetOffsetAfterCompletion ==
  ( /\ quiet
    /\ writes = 1
    /\ wr.pc = "resolved"
    /\ received = wr.upload_length
    /\ events.UPLOAD_COMPLETE = 1
    /\ ab.pc = "idle"
    /\ go.pc \in {"resolved", "rejected"} ) =>
    /\ go.pc = "resolved"
    /\ go.size = wr.upload_length
    /\ go.metadata.upload_length = wr.upload_length

\* C10: abort with a record issues deleteObject and abortMultipartUpload
\* together, and each is served whatever became of the other; abort is
\* rejected as soon as one of them has failed and resolves only when both
\* have succeeded; the step that rejects abort leaves what the request that
\* succeeded did as it is.
C10_AbortBestEffort ==
  /\ [](ab.delete = "" <=> ab.abort = "")
  /\ [](ab.pc = "all" => (ab.delete # "" /\ ab.abort # ""))
  /\ []((ab.delete = "failed" \/ ab.abort = "failed") => ab.pc = "rejected")
  /\ [](ab.pc = "resolved" => (ab.delete = "ok" /\ ab.abort = "ok"))
  /\ []((ab.delete = "ok" /\ ab.abort = "ok") => ab.pc = "resolved")
  /\ [](ab.delete = "sent" => (ENABLED AbortDelete /\ ENABLED AbortDeleteFails))
  /\ [](ab.abort = "sent" => (ENABLED AbortUpload /\ ENABLED AbortUploadFails))
  /\ [][ (ab.pc = "all" /\ ab'.pc = "rejected") =>
           /\ ab.delete = "ok" => objects' = objects
           /\ ab.abort = "ok" => mpu' = mpu ]_vars

C10_Witness ==
  /\ ab.pc = "rejected"
  /\ ab.delete = "ok"
  /\ ab.abort = "failed"
  /\ ab.error = "NetworkingError"
  /\ mpu.status = "open"
  /\ ~HasRecord


\* ------------------------------------------------------ claims C11 .. C20
\* the served requests of the kind op, in the order S3 served them
Served(op) == SelectSeq(calls, LAMBDA c : c.op = op)

RECURSIVE ConcatParts(_, _)
\* the bodies of the parts 1 .. n one after the other
ConcatParts(parts, n) ==
  IF n = 0 THEN <<>> ELSE ConcatParts(parts, n - 1) \o parts[n]

\* the highest part number S3 holds (0 when it holds none)
LastPart == Cardinality(DOMAIN mpu.parts)

\* the bytes the write call has committed in parts since it read the record
Committed == wr.metadata.upload_offset - wr.upload_offset

\* C11: a create call whose naming function throws is rejected, and it
\* leaves no buffer entry, no multipart upload, no record and no FILE_CREATED
\* event behind.
C11_NamingFailureNoState ==
  (cr.pc = "rejected" /\ cr.error = FILE_WRITE_ERROR) =>
    /\ inMemory = Empty
    /\ mpu.status = "none"
    /\ calls = <<>>
    /\ ~HasRecord
    /\ events.FILE_CREATED = 0

C11_Witness ==
  /\ cr.pc = "rejected"
  /\ cr.error = FILE_WRITE_ERROR
  /\ cr.length = Header(<<"5">>)

\* C13: when a write call resolves with the upload incomplete, what it had
\* buffered at the end of its stream, B, has gone in B \div chunkSize parts of
\* chunkSize bytes each, and B % chunkSize bytes (fewer than chunkSize) are
\* left in the buffer.
C13_ThresholdPolicy ==
  (~refused /\ wr.pc = "resolved" /\ wr.mode # "drain") =>
    LET B == Committed + Buffered
    IN  /\ Committed = chunkSize * (B \div chunkSize)
        /\ Buffered = B % chunkSize
        /\ Buffered < chunkSize

C15_MinimumPartSize ==
  \A n \in DOMAIN mpu.parts :
    Len(mpu.parts[n]) < chunkSize =>
      \/ mpu.status = "aborted"
      \/ /\ n = LastPart
         /\ mpu.status = "completed" \/ wr.pc = "finish"

\* C16: the uploadPart requests S3 serves carry the part numbers 1, 2, 3, ..
\* in this order, every byte of a part precedes every byte of the parts with
\* higher numbers, and completeMultipartUpload is issued at most once, with
\* the list 1 .. n of all parts S3 holds.
C16_PartOrderAndSingleCompletion ==
  /\ \A i \in 1..Len(Served("uploadPart")) : Served("uploadPart")[i].num = i
  /\ DOMAIN mpu.parts = 1..Len(Served("uploadPart"))
  /\ \A k, l \in DOMAIN mpu.parts :
       k < l => \A i \in DOMAIN mpu.parts[k], j \in DOMAIN mpu.parts[l] :
                  mpu.parts[k][i] < mpu.parts[l][j]
  /\ Len(Served("completeMultipartUpload")) <= 1
  /\ wr.complete = "sent" => Served("completeMultipartUpload") = <<>>
  /\ wr.complete # "" => wr.metadata.upload_parts = Ascending(LastPart)
  /\ \A i \in 1..Len(Served("completeMultipartUpload")) :
       Served("completeMultipartUpload")[i].parts = Ascending(LastPart)

C16_Witness ==
  /\ Len(Served("completeMultipartUpload")) = 1
  /\ Served("completeMultipartUpload")[1].parts = <<1, 2, 3>>
  /\ mpu.parts[1][1] < mpu.parts[2][1]
  /\ mpu.parts[2][1] < mpu.parts[3][1]
  /\ writes >= 2

\* C17: once create has named the upload its buffer exists, empty until a
\* data event; after the upload has completed or abort has resolved, the
\* buffer holds no bytes or is gone.
C17_BufferLifecycle ==
  /\ cr.pc \in {"createMultipartUpload", "putObject", "resolved"} =>
       file_id \in DOMAIN inMemory
  /\ (file_id \in DOMAIN inMemory /\ received = 0) => Buffered = 0
  /\ (Completed \/ ab.pc = "resolved") =>
       (file_id \notin DOMAIN inMemory \/ Buffered = 0)

\* C19: with one write call at a time and no request of write refused, the
\* parts S3 holds in the order of their numbers, then the body of the part
\* upload in flight, then the buffered fragments in the order of arrival, are
\* the bytes 1 .. received the data events delivered: in particular parts and
\* buffer make up these bytes whenever no part upload is in flight.
C19_ByteConservation ==
  (~refused /\ file_id \in DOMAIN inMemory) =>
    /\ DOMAIN mpu.parts = 1..LastPart
    /\ ConcatParts(mpu.parts, LastPart) \o wr.data \o Concat(inMemory[file_id])
         = Fragment(0, received)
    /\ wr.pc # "uploadPart" => wr.data = <<>>

C19_Witness ==
  /\ ~refused
  /\ wr.pc = "resolved"
  /\ LastPart >= 1
  /\ Buffered > 0
  /\ received >= chunkSize + 1
  /\ writes >= 2

\* C20: once completeMultipartUpload has been issued, write issues no
\* uploadPart request and no putObject of the record any more.
C20_NothingAfterCompletion ==
  wr.complete # "" => wr.pc \notin {"uploadPart", "putMetadata"}


\* C12: a write call one of whose S3 requests has failed is rejected with
\* the error of that request.
C12_WriteFailureSettles ==
  (wr.pc # "idle" /\ wr.error = "NetworkingError") => wr.pc = "rejected"

\* two uploadPart requests that S3 served carried the same part number
DuplicatePartNumber ==
  \E i, j \in 1..Len(Served("uploadPart")) :
    i < j /\ Served("uploadPart")[i].num = Served("uploadPart")[j].num

\* the stored record counts fewer parts than S3 accepted
LostUpdate ==
  HasRecord /\ objects[InfoKey].upload_part_num < Len(Served("uploadPart"))

\* C18: nothing keeps a write call from starting while another write call
\* for the same identifier is between reading the record and storing it; and
\* once two accepted parts carried the same number, every record stored
\* counts fewer parts than S3 accepted.
C18_SameIdentifierRace ==
  /\ ( /\ other.pc \in {"receiving", "uploadPart", "putMetadata"}
       /\ wr.pc \in {"idle", "resolved", "pending"}
       /\ wr.complete # "sent" /\ wr.delete # "sent"
       /\ writes < MaxWrites ) => ENABLED Write
  /\ (DuplicatePartNumber /\ HasRecord) => LostUpdate

\* both write calls have resolved, two parts went under one number and the
\* record counts one of them
C18_Witness ==
  /\ wr.pc = "resolved" /\ other.pc = "resolved"
  /\ DuplicatePartNumber
  /\ LostUpdate
  /\ UploadOpen

====
